---- MODULE Spec2Model ----
(***************************************************************************)
(* State-machine model of auto_bot.py: the price fetcher                   *)
(* (get_market_prices, save_last_prices, load_last_prices), the scheduler  *)
(* loop (schedule_updates, send_market_update), the update handlers        *)
(* (handle_price_request, auto_reply, welcome, reload_responses) and the   *)
(* restart of the process.                                                 *)
(*                                                                         *)
(* Prices.  A quote is a multiple of 1/16 USD (exactly representable as a  *)
(* binary float, so that round(float(x), 2) has exact ties): the raw value *)
(* k stands for k/16 USD.  A stored or reported price is a whole number of *)
(* cents (the 2-decimal float the code stores).                            *)
(*                                                                         *)
(* Time.  The clock counts units of 15 seconds since local midnight of     *)
(* date 0 in Asia/Bangkok (no daylight saving: every date has 24 hours).   *)
(***************************************************************************)
EXTENDS Integers, Sequences, FiniteSets, TLC

(***************************************************************************)
(* Program constants                                                       *)
(***************************************************************************)

\* TICKERS: symbol -> CoinGecko id, in insertion order.
TICKERS ==
    << [name |-> "BTC", coin_id |-> "bitcoin"],
       [name |-> "ETH", coin_id |-> "ethereum"],
       [name |-> "BNB", coin_id |-> "binancecoin"],
       [name |-> "SOL", coin_id |-> "solana"],
       [name |-> "XAU", coin_id |-> "tether-gold"] >>

Names == {TICKERS[i].name : i \in 1..Len(TICKERS)}

CoinIds == {TICKERS[i].coin_id : i \in 1..Len(TICKERS)}

\* The four movement glyphs of get_market_prices.
ARROW_FLAT == "flat"        \* " ->" glyph (line 120)

ARROW_UP == "up"            \* up-triangle glyph (line 123)

ARROW_DOWN == "down"        \* down-triangle glyph (line 125)

ARROW_UNKNOWN == "unknown"  \* question-mark glyph (lines 129, 133)

\* Python's None, and a present value, as the price slot of a snapshot entry.
None == << >>

Some(c) == << c >>

(***************************************************************************)
(* Bounds of the model                                                     *)
(***************************************************************************)

\* Raw quotes are 1/16 .. MaxRaw/16 USD.
MaxRaw == 3

RawNums == 1..MaxRaw

(***************************************************************************)
(* The quote provider's answer                                             *)
(***************************************************************************)

\* What data[coin_id]["usd"] holds for one coin: nothing (KeyError), a value
\* float() rejects, or a number.
Missing == [kind |-> "missing"]

Bad == [kind |-> "bad"]

Num(k) == [kind |-> "num", k |-> k]

RawVals == {Missing, Bad} \cup {Num(k) : k \in RawNums}

\* requests.get raised; resp.json() raised; or a JSON object.
NetworkError == [kind |-> "network"]

NotJson == [kind |-> "notjson"]

Json(body) == [kind |-> "json", body |-> body]

Bodies == [CoinIds -> RawVals]

Failures == {NetworkError, NotJson}

Responses == Failures \cup {Json(b) : b \in Bodies}

(***************************************************************************)
(* Pure helpers of the price fetcher                                       *)
(***************************************************************************)

\* A bug: the price is cut to 2 decimals instead of rounded.
Round2Truncating(k) == (25 * k) \div 4

\* round(float(k/16), 2) in cents: 100*k/16 = 25*k/4 rounded to the nearest
\* integer, an exact tie going to the even neighbour.
Round2(k) ==
    LET q == (25 * k) \div 4
        r == (25 * k) % 4
    IN  IF r < 2 THEN q
        ELSE IF r > 2 THEN q + 1
        ELSE IF q % 2 = 0 THEN q ELSE q + 1

\* A bug: a symbol without a stored price is compared with 0
\* (last_prices.get(name, 0)).
ArrowAgainstZero(lp, name, current_price) ==
    LET old == IF name \in DOMAIN lp THEN lp[name] ELSE 0
    IN  IF current_price > old THEN ARROW_UP
        ELSE IF current_price < old THEN ARROW_DOWN
        ELSE ARROW_FLAT

\* A bug: the arrow starts as the unknown glyph, so a symbol without a stored
\* price is reported as unknown.
ArrowFirstUnknown(lp, name, current_price) ==
    IF name \in DOMAIN lp
    THEN IF current_price > lp[name] THEN ARROW_UP
         ELSE IF current_price < lp[name] THEN ARROW_DOWN
         ELSE ARROW_FLAT
    ELSE ARROW_UNKNOWN

\* The arrow chosen for a parsed price against the price map (lines 120-125).
Arrow(lp, name, current_price) ==
    IF name \in DOMAIN lp
    THEN IF current_price > lp[name] THEN ARROW_UP
         ELSE IF current_price < lp[name] THEN ARROW_DOWN
         ELSE ARROW_FLAT
    ELSE ARROW_FLAT

EmptyDict == [n \in {} |-> 0]

\* A bug: the outer except walks the snapshot, empty at that point, instead
\* of TICKERS.
AllUnknownOfSnapshot == EmptyDict

\* The handler of the outer except (lines 130-133).
AllUnknown == [n \in Names |-> <<None, ARROW_UNKNOWN>>]

\* d[key] = value on a dict.
DictSet(d, key, value) ==
    [x \in DOMAIN d \cup {key} |-> IF x = key THEN value ELSE d[x]]

\* A bug: the stored price of a failing symbol is dropped
\* (last_prices.pop(name, None) in the inner except).
LoopBodyForgetting(i, body, acc) ==
    LET name == TICKERS[i].name
        raw  == body[TICKERS[i].coin_id]
    IN  IF raw.kind = "num"
        THEN LET current_price == Round2(raw.k)
             IN  [last_prices |-> DictSet(acc.last_prices, name, current_price),
                  prices |-> DictSet(acc.prices, name,
                                     <<Some(current_price),
                                       Arrow(acc.last_prices, name, current_price)>>)]
        ELSE [last_prices |-> [n \in DOMAIN acc.last_prices \ {name} |-> acc.last_prices[n]],
              prices |-> DictSet(acc.prices, name, <<None, ARROW_UNKNOWN>>)]

\* A bug: a failing symbol is reported with the price stored for it, if any.
LoopBodyStalePrice(i, body, acc) ==
    LET name == TICKERS[i].name
        raw  == body[TICKERS[i].coin_id]
    IN  IF raw.kind = "num"
        THEN LET current_price == Round2(raw.k)
             IN  [last_prices |-> DictSet(acc.last_prices, name, current_price),
                  prices |-> DictSet(acc.prices, name,
                                     <<Some(current_price),
                                       Arrow(acc.last_prices, name, current_price)>>)]
        ELSE [last_prices |-> acc.last_prices,
              prices |-> DictSet(acc.prices, name,
                                 <<IF name \in DOMAIN acc.last_prices
                                   THEN Some(acc.last_prices[name]) ELSE None,
                                   ARROW_UNKNOWN>>)]

\* One pass of the body of the for loop (lines 118-129) for TICKERS[i].
LoopBody(i, body, acc) ==
    LET name == TICKERS[i].name
        raw  == body[TICKERS[i].coin_id]
    IN  IF raw.kind = "num"
        THEN LET current_price == Round2(raw.k)
             IN  [last_prices |-> DictSet(acc.last_prices, name, current_price),
                  prices |-> DictSet(acc.prices, name,
                                     <<Some(current_price),
                                       Arrow(acc.last_prices, name, current_price)>>)]
        ELSE [last_prices |-> acc.last_prices,
              prices |-> DictSet(acc.prices, name, <<None, ARROW_UNKNOWN>>)]

RECURSIVE Loop(_, _, _)

\* A bug: no try inside the loop, so the first failing symbol ends the loop
\* in the outer except.
LoopAborting(i, body, acc) ==
    IF i > Len(TICKERS) THEN acc
    ELSE IF body[TICKERS[i].coin_id].kind # "num"
         THEN [last_prices |-> acc.last_prices, prices |-> AllUnknown]
         ELSE Loop(i + 1, body, LoopBody(i, body, acc))

\* The for loop over TICKERS.items(), from index i on.
Loop(i, body, acc) ==
    IF i > Len(TICKERS) THEN acc
    ELSE Loop(i + 1, body, LoopBody(i, body, acc))

\* get_market_prices up to the save: the new price map and the snapshot.
Fetched(resp, lp) ==
    IF resp.kind = "json"
    THEN Loop(1, resp.body, [last_prices |-> lp, prices |-> EmptyDict])
    ELSE [last_prices |-> lp, prices |-> AllUnknown]

(***************************************************************************)
(* The price file                                                          *)
(***************************************************************************)

\* prices.json holds a JSON object, or text that is not JSON (a truncated write).
FileOk(map) == [ok |-> TRUE, map |-> map]

FileCorrupt == [ok |-> FALSE]

\* Outcomes of save_last_prices: written; open() failed (file untouched);
\* the write failed after open() truncated the file.
WriteOutcomes == {"written", "open_failed", "dump_failed"}

\* The file after save_last_prices(prices) with outcome w; no outcome raises.
save_last_prices(file, map, w) ==
    IF w = "written" THEN FileOk(map)
    ELSE IF w = "open_failed" THEN file
    ELSE FileCorrupt

load_last_prices(file) == IF file.ok THEN file.map ELSE EmptyDict

(***************************************************************************)
(* Clock and scheduler constants                                           *)
(***************************************************************************)

\* asyncio.sleep(30): 30 seconds are two clock units of 15 seconds.
SleepUnits == 2

MinuteUnits == 2 * SleepUnits

HourUnits == 60 * MinuteUnits

DayUnits == 24 * HourUnits

\* now.date(), now.hour, now.minute of the clock value t.
DateOf(t) == t \div DayUnits

HourOf(t) == (t % DayUnits) \div HourUnits

MinuteOf(t) == (t % HourUnits) \div MinuteUnits

At(d, h, m, u) == d * DayUnits + h * HourUnits + m * MinuteUnits + u

target_times == << <<9, 0>>, <<12, 0>>, <<19, 0>> >>

\* now.hour == hour and now.minute == minute (line 177).
AtTarget(t, i) ==
    HourOf(t) = target_times[i][1] /\ MinuteOf(t) = target_times[i][2]

\* A bug: the key is the date alone, one broadcast a day.
KeyDateOnly(t, i) == <<DateOf(t)>>

\* A bug: the key has no date, and lives until the set is cleared.
KeyNoDate(t, i) == <<target_times[i][1], target_times[i][2]>>

\* key = (now.date(), hour, minute) (line 178).
Key(t, i) == <<DateOf(t), target_times[i][1], target_times[i][2]>>

\* A bug: midnight is taken for hour 24, which now.hour never is, so the set
\* is never cleared.
AtMidnightHour24(t) == HourOf(t) = 24 /\ MinuteOf(t) = 0

\* A bug: the hour is not compared, the set is cleared at every full hour.
AtMidnightAnyHour(t) == MinuteOf(t) = 0

\* now.hour == 0 and now.minute == 0 (line 182).
AtMidnight(t) == HourOf(t) = 0 /\ MinuteOf(t) = 0

\* The first target from index i on that the for loop of a tick at t sends
\* for (lines 176-179), 0 when there is none.
NextDue(t, i, sent) ==
    LET due == {j \in i..Len(target_times) : AtTarget(t, j) /\ Key(t, j) \notin sent}
    IN  IF due = {} THEN 0 ELSE CHOOSE j \in due : \A k \in due : j <= k

\* A bug: the dedup set outlives the process (as if it were persisted).
KeptSentToday(old) == old

\* sent_today = set() at the start of schedule_updates (line 173), whatever
\* the set of an earlier run held.
NewSentToday(old) == {}

\* A bug: no try in save_last_prices, a failed write raises.
SaveRaisesUncaught(w) == w # "written"

\* Whether an exception of save_last_prices' body leaves the function
\* (lines 85-86: it is caught and printed).
SaveRaises(w) == FALSE

(***************************************************************************)
(* Bounds of the scheduler model                                           *)
(***************************************************************************)

\* Two consecutive ticks are SleepUnits .. MaxGap units apart, or a whole hour
\* (a suspended process).
MaxGap == 5

Gaps == (SleepUnits..MaxGap) \cup {HourUnits}

\* The scheduler is followed for one day and ExtraMinutes minutes.
ExtraMinutes == 3

LongSpan == DayUnits + ExtraMinutes * MinuteUnits

\* The process starts shortly before 09:00 of date 0, or inside that minute.
LastStart == At(0, 9, 0, 1)

StartTimes == {At(0, 8, 59, 0), LastStart}

\* The provider's answers to a scheduled broadcast that the scheduler runs use.
UniformBody(k) == [c \in CoinIds |-> Num(k)]

SchedResponses == {NetworkError, Json(UniformBody(1))}

SchedWrites == {"written"}

(***************************************************************************)
(* The response table                                                      *)
(***************************************************************************)

\* A table is a dict in stored order: a sequence of entries with distinct keys.
Entry(key, reply) == [key |-> key, reply |-> reply]

\* The table written when responses.json does not exist (lines 43-48).
default_responses ==
    << Entry("hello", "hello text"),
       Entry("help", "help text"),
       Entry("_welcome", "welcome {name} text"),
       Entry("_reload_success", "reloaded text") >>

\* A table an editor may leave: no reload text, another reply for "hello".
EditedResponses == << Entry("hello", "new hello text") >>

\* responses.get(key, default).
Get(table, key, default) ==
    IF \E i \in 1..Len(table) : table[i].key = key
    THEN table[CHOOSE i \in 1..Len(table) : table[i].key = key].reply
    ELSE default

\* responses.json: a JSON object, no file, or text that is not JSON.
ResponsesOk(table) == [state |-> "ok", table |-> table]

ResponsesMissing == [state |-> "missing"]

ResponsesMalformed == [state |-> "malformed"]

ResponseFiles ==
    {ResponsesOk(default_responses), ResponsesOk(EditedResponses),
     ResponsesMissing, ResponsesMalformed}

\* load_responses: only FileNotFoundError is caught (lines 95-100); a
\* json.JSONDecodeError leaves the function.
load_responses(file) ==
    IF file.state = "ok" THEN [raised |-> FALSE, value |-> file.table]
    ELSE IF file.state = "missing" THEN [raised |-> FALSE, value |-> << >>]
    ELSE [raised |-> TRUE, value |-> << >>]

(***************************************************************************)
(* Text: keywords and messages                                             *)
(***************************************************************************)

\* The characters of the strings the model uses (a string is named by a
\* TLA+ string and compared character by character through this table).
Chars(s) ==
    CASE s = "hello" -> <<"h", "e", "l", "l", "o">>
      [] s = "help" -> <<"h", "e", "l", "p">>
      [] s = "_welcome" -> <<"_", "w", "e", "l", "c", "o", "m", "e">>
      [] s = "_reload_success" -> <<"_", "r", "e", "l", "o", "a", "d", "_", "s", "u", "c", "c", "e", "s", "s">>
      [] s = "deposit" -> <<"d", "e", "p", "o", "s", "i", "t">>
      [] s = "price" -> <<"p", "r", "i", "c", "e">>
      [] s = "/price" -> <<"/", "p", "r", "i", "c", "e">>
      [] s = "_" -> <<"_">>
      [] s = "how do I deposit funds" -> <<"h", "o", "w", " ", "d", "o", " ", "I", " ", "d", "e", "p", "o", "s", "i", "t", " ", "f", "u", "n", "d", "s">>
      [] s = "PRICE now" -> <<"P", "R", "I", "C", "E", " ", "n", "o", "w">>
      [] s = "hello, price?" -> <<"h", "e", "l", "l", "o", ",", " ", "p", "r", "i", "c", "e", "?">>
      [] s = "Help and hello" -> <<"H", "e", "l", "p", " ", "a", "n", "d", " ", "h", "e", "l", "l", "o">>
      [] s = "thanks" -> <<"t", "h", "a", "n", "k", "s">>

UpperCase == <<"A", "B", "C", "D", "E", "F", "G", "H", "I", "J", "K", "L", "M", "N", "O", "P", "Q", "R", "S", "T", "U", "V", "W", "X", "Y", "Z">>

LowerCase == <<"a", "b", "c", "d", "e", "f", "g", "h", "i", "j", "k", "l", "m", "n", "o", "p", "q", "r", "s", "t", "u", "v", "w", "x", "y", "z">>

\* str.lower() on a sequence of (ASCII) characters.
lower(cs) ==
    [i \in 1..Len(cs) |->
        IF \E j \in 1..Len(UpperCase) : UpperCase[j] = cs[i]
        THEN LowerCase[CHOOSE j \in 1..Len(UpperCase) : UpperCase[j] = cs[i]]
        ELSE cs[i]]

\* needle in hay: needle is a substring of hay.
In(needle, hay) ==
    \E i \in 0..(Len(hay) - Len(needle)) : SubSeq(hay, i + 1, i + Len(needle)) = needle

\* cs.startswith(prefix).
startswith(cs, prefix) ==
    Len(cs) >= Len(prefix) /\ SubSeq(cs, 1, Len(prefix)) = prefix

\* A bug: only the command form asks for prices.
wants_price_command_only(msg) == startswith(msg, Chars("/price"))

\* "price" in msg or msg.startswith("/price") (line 201).
wants_price(msg) == In(Chars("price"), msg) \/ startswith(msg, Chars("/price"))

\* A bug: reserved keys are not skipped.
is_reserved_never(keyword) == FALSE

\* keyword.startswith("_") (line 205).
is_reserved(keyword) == startswith(Chars(keyword), Chars("_"))

\* The entries the loop of auto_reply replies with for msg: the indices of
\* the table, in stored order, that are not skipped and whose key is in msg.
Matches(table, msg) ==
    {i \in 1..Len(table) : ~is_reserved(table[i].key) /\ In(Chars(table[i].key), msg)}

\* What auto_reply does with an update, given the table (lines 197-208):
\* nothing, a price request, or the reply of the first matching entry.
auto_reply_plan(update, table) ==
    IF update.kind # "text" THEN [act |-> "none"]
    ELSE LET msg == lower(Chars(update.text))
         IN  IF wants_price(msg) THEN [act |-> "price"]
             ELSE LET m == Matches(table, msg)
                  IN  IF m = {} THEN [act |-> "none"]
                      ELSE [act |-> "reply",
                            reply |-> table[CHOOSE i \in m : \A j \in m : i <= j].reply]

(***************************************************************************)
(* State                                                                   *)
(***************************************************************************)
VARIABLES
    last_prices,    \* the global price map: symbol -> cents
    prices_file,    \* contents of prices.json
    data,           \* the provider's answer to the latest fetch ("none" before)
    old_prices,     \* the price map as the latest fetch found it
    prices,         \* the snapshot the latest fetch returned
    saved,          \* outcome of the latest fetch's save_last_prices
    fetch_bit,      \* flips at every call of get_market_prices
    now,            \* the scheduler's latest clock sample
    started,        \* the clock when the process started
    sched_pc,       \* "start", "sending", "sleeping" or "crashed"
    sched_i,        \* index of the target whose broadcast is being sent
    sent_today,     \* the dedup set of schedule_updates
    broadcasts,     \* history: (date, hour, minute) -> broadcasts delivered
    late,           \* history: some gap between ticks exceeded 60 seconds
    dup,            \* history: ticks so far inside the minute of now
    run,            \* history: process starts before the current one
    earlier,        \* history: broadcasts delivered by earlier runs, per key
    responses,      \* the global response table
    responses_file, \* contents of responses.json
    loaded_from,    \* history: responses.json as the latest reload or start found it
    handler,        \* the update handler in flight, or how the latest one ended
    inbound         \* the update that handler is (was) about

fetch_vars == <<last_prices, prices_file, data, old_prices, prices, saved, fetch_bit>>

sched_vars == <<now, started, sched_pc, sched_i, sent_today, broadcasts, late, dup,
               run, earlier>>

table_vars == <<responses, responses_file, loaded_from>>

handler_vars == <<handler, inbound>>

vars == <<fetch_vars, sched_vars, table_vars, handler_vars>>

NoData == [kind |-> "none"]

\* A bug: every fetch compares with, and updates, the map it reads back from
\* prices.json instead of the map in memory.
get_market_prices_from_file(resp, w) ==
    LET f == Fetched(resp, load_last_prices(prices_file))
    IN  /\ last_prices' = f.last_prices
        /\ prices' = f.prices
        /\ prices_file' = save_last_prices(prices_file, f.last_prices, w)
        /\ data' = resp
        /\ old_prices' = load_last_prices(prices_file)
        /\ saved' = w
        /\ fetch_bit' = 1 - fetch_bit

\* get_market_prices with answer resp and save outcome w.
get_market_prices(resp, w) ==
    LET f == Fetched(resp, last_prices)
    IN  /\ last_prices' = f.last_prices
        /\ prices' = f.prices
        /\ prices_file' = save_last_prices(prices_file, f.last_prices, w)
        /\ data' = resp
        /\ old_prices' = last_prices
        /\ saved' = w
        /\ fetch_bit' = 1 - fetch_bit

(***************************************************************************)
(* The scheduler loop                                                      *)
(***************************************************************************)

\* The for loop of one tick sampled at t, from target index i on, with dedup
\* set sent: up to the next await (the send of a broadcast, or the sleep).
Scan(t, i, sent, R, W) ==
    LET j == NextDue(t, i, sent)
    IN  IF j # 0
        THEN /\ \E resp \in R, w \in W :
                    /\ get_market_prices(resp, w)
                    /\ sched_pc' = IF SaveRaises(w) THEN "crashed" ELSE "sending"
             /\ sched_i' = j
             /\ sent_today' = sent
        ELSE /\ sched_pc' = "sleeping"
             /\ sched_i' = 0
             /\ sent_today' = IF AtMidnight(t) THEN {} ELSE sent
             /\ UNCHANGED fetch_vars

\* on_startup: the task starts and runs its first tick.
SchedStart(R, W) ==
    /\ sched_pc = "start"
    /\ Scan(now, 1, sent_today, R, W)
    /\ UNCHANGED <<now, started, broadcasts, late, dup, run, earlier,
                 table_vars, handler_vars>>

\* asyncio.sleep(30) returns gap units after the previous sample; next tick.
SchedWake(R, W, span) ==
    /\ sched_pc = "sleeping"
    /\ \E gap \in Gaps :
          /\ now + gap <= started + span
          /\ now' = now + gap
          /\ late' = (late \/ gap > MinuteUnits)
          /\ dup' = IF (now + gap) \div MinuteUnits = now \div MinuteUnits
                    THEN dup + 1 ELSE 1
          /\ Scan(now + gap, 1, sent_today, R, W)
    /\ UNCHANGED <<started, broadcasts, run, earlier, table_vars, handler_vars>>

\* bot.send_message returned: sent_today.add(key), then the rest of the tick.
SchedSendOk(R, W) ==
    /\ sched_pc = "sending"
    /\ LET k == <<DateOf(now), target_times[sched_i][1], target_times[sched_i][2]>>
       IN  broadcasts' = DictSet(broadcasts, k,
                                 IF k \in DOMAIN broadcasts THEN broadcasts[k] + 1 ELSE 1)
    /\ Scan(now, sched_i + 1, sent_today \cup {Key(now, sched_i)}, R, W)
    /\ UNCHANGED <<now, started, late, dup, run, earlier, table_vars, handler_vars>>

\* bot.send_message raised: nothing catches it, the task ends.
SchedSendFail ==
    /\ sched_pc = "sending"
    /\ sched_pc' = "crashed"
    /\ UNCHANGED <<fetch_vars, now, started, sched_i, sent_today, broadcasts, late, dup,
                   run, earlier, table_vars, handler_vars>>

InitSchedAt(t) ==
    /\ now = t
    /\ started = t
    /\ sched_pc = "start"
    /\ sched_i = 0
    /\ sent_today = {}
    /\ broadcasts = EmptyDict
    /\ late = FALSE
    /\ dup = 1
    /\ run = 0
    /\ earlier = EmptyDict

InitPrices(files) ==
    /\ prices_file \in files
    /\ last_prices = load_last_prices(prices_file)
    /\ data = NoData
    /\ old_prices = EmptyDict
    /\ prices = EmptyDict
    /\ saved = "none"
    /\ fetch_bit = 0

(***************************************************************************)
(* The update handlers (one update is handled at a time)                   *)
(***************************************************************************)

\* Updates: none yet; a command in a new message; a command in an edited
\* message (the CommandHandlers of lines 239-240 have no filter and take it;
\* update.message is None); a text message that is not a command; an update
\* without message text (update.message is None, as for an edited message); a
\* change of a chat member's status in a chat.
NoUpdate == [kind |-> "none"]

CommandUpdate(command) == [kind |-> "command", command |-> command]

EditedCommand(command) == [kind |-> "edited_command", command |-> command]

\* update.message is not None.
HasMessage(update) == update.kind \in {"command", "text"}

PriceCommands == {CommandUpdate("price"), EditedCommand("price")}

ReloadCommands == {CommandUpdate("reload"), EditedCommand("reload")}

TextMessage(text) == [kind |-> "text", text |-> text]

NoMessage == [kind |-> "no_message"]

ChatMemberUpdate(old_status, new_status, chat) ==
    [kind |-> "chat_member", old_status |-> old_status, new_status |-> new_status,
     chat |-> chat]

\* The handler variable: no update handled yet; a handler suspended in its
\* reply; or how the latest handler ended (raised_by "none": it returned).
Idle == [pc |-> "idle", op |-> "none", text |-> "none", raised_by |-> "none", sent |-> FALSE]

Replying(op, text) ==
    [pc |-> "replying", op |-> op, text |-> text, raised_by |-> "none", sent |-> TRUE]

Ended(op, text, raised_by, sent) ==
    [pc |-> "ended", op |-> op, text |-> text, raised_by |-> raised_by, sent |-> sent]

\* handle_price_request as the handler of the price command, up to its await
\* or its end: the fetch, then update.message.reply_text(message), which
\* raises AttributeError when update.message is None (line 193).
HandlePriceRequest(updates, R, W) ==
    /\ handler.pc # "replying"
    /\ \E update \in updates, resp \in R, w \in W :
          /\ get_market_prices(resp, w)
          /\ handler' = IF SaveRaises(w)
                        THEN Ended("price", "none", "save_last_prices", FALSE)
                        ELSE IF HasMessage(update)
                        THEN Replying("price", "market message")
                        ELSE Ended("price", "none", "AttributeError", FALSE)
          /\ inbound' = update
    /\ UNCHANGED <<sched_vars, table_vars>>

\* auto_reply up to its await or its return (lines 196-208); the price
\* branch is handle_price_request.
AutoReply(updates, R, W) ==
    /\ handler.pc # "replying"
    /\ \E update \in updates :
          /\ inbound' = update
          /\ LET plan == auto_reply_plan(update, responses)
             IN  IF plan.act = "price"
                 THEN \E resp \in R, w \in W :
                          /\ get_market_prices(resp, w)
                          /\ handler' = IF SaveRaises(w)
                                        THEN Ended("auto_reply", "none",
                                                   "save_last_prices", FALSE)
                                        ELSE Replying("auto_reply", "market message")
                 ELSE /\ handler' = IF plan.act = "reply"
                                    THEN Replying("auto_reply", plan.reply)
                                    ELSE Ended("auto_reply", "none", "none", FALSE)
                      /\ UNCHANGED fetch_vars
    /\ UNCHANGED <<sched_vars, table_vars>>

\* A bug: the old status is not looked at.
is_join_any_old(old_status, new_status) == new_status = "member"

\* old_status in ("left", "kicked") and new_status == "member" (line 216).
is_join(old_status, new_status) ==
    old_status \in {"left", "kicked"} /\ new_status = "member"

\* The welcome message on its way to chat (the substitution of the member's
\* mention for {name} is not modelled: text is the template).
Welcoming(text, chat) ==
    [pc |-> "replying", op |-> "welcome", text |-> text, raised_by |-> "none",
     sent |-> TRUE, chat |-> chat]

\* welcome up to its await or its return (lines 211-223).
Welcome(updates) ==
    /\ handler.pc # "replying"
    /\ \E update \in updates :
          /\ inbound' = update
          /\ handler' = IF is_join(update.old_status, update.new_status)
                        THEN Welcoming(Get(responses, "_welcome", "Welcome {name}!"),
                                       update.chat)
                        ELSE Ended("welcome", "none", "none", FALSE)
    /\ UNCHANGED <<fetch_vars, sched_vars, table_vars>>

\* reload_responses up to its await or its end (lines 227-229): the table is
\* loaded, then update.message.reply_text raises AttributeError when
\* update.message is None.
ReloadResponses(updates) ==
    /\ handler.pc # "replying"
    /\ \E update \in updates :
          /\ inbound' = update
          /\ LET loaded == load_responses(responses_file)
             IN  IF loaded.raised
                 THEN /\ handler' = Ended("reload", "none", "load_responses", FALSE)
                      /\ responses' = responses
                 ELSE /\ responses' = loaded.value
                      /\ handler' =
                            IF HasMessage(update)
                            THEN Replying("reload",
                                          Get(loaded.value, "_reload_success", "Reloaded!"))
                            ELSE Ended("reload", "none", "AttributeError", FALSE)
    /\ loaded_from' = responses_file
    /\ UNCHANGED <<fetch_vars, sched_vars, responses_file>>

\* reply_text returned.
ReplyOk ==
    /\ handler.pc = "replying"
    /\ handler' = Ended(handler.op, handler.text, "none", TRUE)
    /\ UNCHANGED <<fetch_vars, sched_vars, table_vars, inbound>>

\* reply_text raised.
ReplyFail ==
    /\ handler.pc = "replying"
    /\ handler' = Ended(handler.op, handler.text, "send", TRUE)
    /\ UNCHANGED <<fetch_vars, sched_vars, table_vars, inbound>>

\* An external editor rewrites, removes or garbles responses.json.
EditResponsesFile(files) ==
    /\ \E f \in files : responses_file' = f
    /\ UNCHANGED <<fetch_vars, sched_vars, responses, loaded_from, handler_vars>>

\* Start-up (lines 42-50, 103): the file exists and was loaded.
InitTables(files) ==
    /\ responses_file \in files
    /\ responses = load_responses(responses_file).value
    /\ loaded_from = responses_file
    /\ handler = Idle
    /\ inbound = NoUpdate

\* The process is stopped at any point and started again gap units later:
\* the module is executed anew (responses.json is written when missing, lines
\* 42-50; last_prices and responses are loaded, lines 89 and 103) and
\* on_startup starts a new schedule_updates task.  A start-up whose
\* load_responses raises ends before anything runs.
Restart(downtimes) ==
    /\ \E gap \in downtimes :
          /\ now' = now + gap
          /\ started' = now + gap
    /\ LET file == IF responses_file.state = "missing"
                   THEN ResponsesOk(default_responses) ELSE responses_file
           loaded == load_responses(file)
       IN  /\ ~loaded.raised
           /\ responses_file' = file
           /\ responses' = loaded.value
           /\ loaded_from' = file
    /\ last_prices' = load_last_prices(prices_file)
    /\ data' = NoData
    /\ old_prices' = EmptyDict
    /\ prices' = EmptyDict
    /\ saved' = "none"
    /\ sched_pc' = "start"
    /\ sched_i' = 0
    /\ sent_today' = NewSentToday(sent_today)
    /\ late' = FALSE
    /\ dup' = 1
    /\ run' = run + 1
    /\ earlier' = broadcasts
    /\ handler' = Idle
    /\ inbound' = NoUpdate
    /\ UNCHANGED <<prices_file, fetch_bit, broadcasts>>

(***************************************************************************)
(* The scheduler on its own, over a day                                    *)
(***************************************************************************)

InitSched ==
    /\ InitPrices({FileOk(EmptyDict)})
    /\ InitTables({ResponsesOk(default_responses)})
    /\ \E t \in StartTimes : InitSchedAt(t)

NextSched ==
    \/ SchedStart(SchedResponses, SchedWrites)
    \/ SchedWake(SchedResponses, SchedWrites, LongSpan)
    \/ SchedSendOk(SchedResponses, SchedWrites)
    \/ SchedSendFail

SpecSched == InitSched /\ [][NextSched]_vars

(***************************************************************************)
(* The scheduler over a few minutes, with process restarts                 *)
(***************************************************************************)

\* The process is restarted at most MaxRestarts times.
MaxRestarts == 1

\* A restart takes 15 to 75 seconds.
Downtimes == 1..MaxGap

RestartSpan == 2 * MinuteUnits

NextRestart ==
    \/ SchedStart(SchedResponses, SchedWrites)
    \/ SchedWake(SchedResponses, SchedWrites, RestartSpan)
    \/ SchedSendOk(SchedResponses, SchedWrites)
    \/ SchedSendFail
    \/ run < MaxRestarts /\ Restart(Downtimes)

SpecRestart == InitSched /\ [][NextRestart]_vars

(***************************************************************************)
(* The fetcher on its own: one call from any start-up state                *)
(***************************************************************************)

Cents == {Round2(k) : k \in RawNums}

\* Price maps a run can start with: nothing yet, every symbol, all but the
\* first symbol.
StoreDomains == {{}, Names, Names \ {"BTC"}}

InitStores == UNION {[D -> {c}] : D \in StoreDomains, c \in Cents}

InitFetch ==
    /\ InitPrices({FileCorrupt} \cup {FileOk(s) : s \in InitStores})
    /\ InitSchedAt(At(0, 8, 59, 0))
    /\ InitTables({ResponsesOk(default_responses)})

FetchOnce ==
    /\ data = NoData
    /\ \E resp \in Responses, w \in WriteOutcomes : get_market_prices(resp, w)
    /\ UNCHANGED <<sched_vars, table_vars, handler_vars>>

NextFetch == FetchOnce

SpecFetch == InitFetch /\ [][NextFetch]_vars

(***************************************************************************)
(* The whole process over a few minutes: scheduler, handlers, editor       *)
(***************************************************************************)

ShortSpan == 2 * MinuteUnits

\* The provider's answers the whole-process runs use.
SomeResponses ==
    {NetworkError, NotJson, Json([UniformBody(1) EXCEPT !["ethereum"] = Missing])}

\* The text updates and member updates the whole-process runs use: a price
\* request, a message with two keywords, a message with none; a member who
\* joins and one who leaves.
SomeTexts ==
    {TextMessage("PRICE now"), TextMessage("Help and hello"), TextMessage("thanks")}

SomeMembers ==
    {ChatMemberUpdate("left", "member", "group"),
     ChatMemberUpdate("member", "left", "group")}

\* The whole-process runs follow the scheduler for a minute and a half.
SomeSpan == MinuteUnits + SleepUnits

\* The outcomes of the write in the whole-process runs.
SomeWrites == {"written", "dump_failed"}

\* What an editor leaves of responses.json in the whole-process runs.
SomeFiles == {ResponsesOk(default_responses), ResponsesMissing, ResponsesMalformed}

Init ==
    /\ InitPrices({FileOk(EmptyDict)})
    /\ InitTables({ResponsesOk(default_responses)})
    /\ InitSchedAt(At(0, 8, 59, 0))

Next ==
    \/ SchedStart(SomeResponses, SomeWrites)
    \/ SchedWake(SomeResponses, SomeWrites, SomeSpan)
    \/ SchedSendOk(SomeResponses, SomeWrites)
    \/ SchedSendFail
    \/ HandlePriceRequest(PriceCommands, SomeResponses, SomeWrites)
    \/ AutoReply(SomeTexts, SomeResponses, SomeWrites)
    \/ Welcome(SomeMembers)
    \/ ReloadResponses(ReloadCommands)
    \/ ReplyOk
    \/ ReplyFail
    \/ EditResponsesFile(SomeFiles)

Spec == Init /\ [][Next]_vars

(***************************************************************************)
(* The callers of the fetcher, with every outcome of the write             *)
(***************************************************************************)

NextSave ==
    \/ SchedStart(SomeResponses, WriteOutcomes)
    \/ SchedWake(SomeResponses, WriteOutcomes, SomeSpan)
    \/ SchedSendOk(SomeResponses, WriteOutcomes)
    \/ SchedSendFail
    \/ HandlePriceRequest(PriceCommands, SomeResponses, WriteOutcomes)
    \/ AutoReply({TextMessage("PRICE now")}, SomeResponses, WriteOutcomes)
    \/ ReplyOk
    \/ ReplyFail

SpecSave == Init /\ [][NextSave]_vars

(***************************************************************************)
(* The update handlers on their own                                        *)
(***************************************************************************)

\* The table of two entries: a keyword and a reserved key.
DepositResponses ==
    << Entry("deposit", "deposit text"), Entry("_welcome", "welcome text") >>

ChatFiles == ResponseFiles \cup {ResponsesOk(DepositResponses)}

Messages ==
    {"how do I deposit funds", "_welcome", "PRICE now", "hello, price?",
     "Help and hello", "thanks"}

TextUpdates == {NoMessage} \cup {TextMessage(s) : s \in Messages}

Statuses == {"left", "kicked", "member", "administrator"}

Chats == {"group", "other chat"}

MemberUpdates ==
    {ChatMemberUpdate(o, n, c) : o \in Statuses, n \in Statuses, c \in Chats}

ChatResponses == {NetworkError, Json(UniformBody(1))}

ChatWrites == {"written"}

InitChat ==
    /\ InitPrices({FileOk(EmptyDict)})
    /\ InitTables({ResponsesOk(default_responses), ResponsesOk(DepositResponses)})
    /\ InitSchedAt(At(0, 8, 59, 0))

NextChat ==
    \/ AutoReply(TextUpdates, ChatResponses, ChatWrites)
    \/ Welcome(MemberUpdates)
    \/ HandlePriceRequest(PriceCommands, ChatResponses, ChatWrites)
    \/ ReloadResponses(ReloadCommands)
    \/ ReplyOk
    \/ ReplyFail
    \/ EditResponsesFile(ChatFiles)

SpecChat == InitChat /\ [][NextChat]_vars

(***************************************************************************)
(* The flows that fetch, next to the handlers that do not                  *)
(***************************************************************************)

\* The provider's answers: a failure, every coin at 1/16 USD, and every coin
\* at 2/16 USD but one that is missing.
FlowResponses ==
    {NetworkError, Json(UniformBody(1)),
     Json([UniformBody(2) EXCEPT !["ethereum"] = Missing])}

FlowWrites == {"written", "dump_failed"}

\* A price request in upper case and a message with two keywords.
FlowTexts == {TextMessage("PRICE now"), TextMessage("Help and hello")}

FlowMembers == {ChatMemberUpdate("left", "member", "group")}

InitFlows ==
    /\ InitPrices({FileOk(EmptyDict)})
    /\ InitTables({ResponsesOk(default_responses)})
    /\ InitSchedAt(At(0, 8, 59, 0))

NextFlows ==
    \/ SchedStart(FlowResponses, FlowWrites)
    \/ SchedWake(FlowResponses, FlowWrites, ShortSpan)
    \/ SchedSendOk(FlowResponses, FlowWrites)
    \/ SchedSendFail
    \/ HandlePriceRequest(PriceCommands, FlowResponses, FlowWrites)
    \/ AutoReply(FlowTexts, FlowResponses, FlowWrites)
    \/ Welcome(FlowMembers)
    \/ ReloadResponses(ReloadCommands)
    \/ ReplyOk
    \/ ReplyFail

SpecFlows == InitFlows /\ [][NextFlows]_vars

(***************************************************************************)
(* Scheduler claims (under SpecSched)                                      *)
(***************************************************************************)

TargetKeys ==
    {<<d, target_times[i][1], target_times[i][2]>> :
        d \in 0..DateOf(LastStart + LongSpan), i \in 1..Len(target_times)}

\* Broadcasts delivered for the target minute k.
Sent(k) == IF k \in DOMAIN broadcasts THEN broadcasts[k] ELSE 0

\* The target minute of now, if now is inside target i.
KeyNow(i) == <<DateOf(now), target_times[i][1], target_times[i][2]>>

KeyStart(k) == At(k[1], k[2], k[3], 0)

KeyEnd(k) == KeyStart(k) + MinuteUnits

\* C1: in one run at most one broadcast is sent per (date, hour, minute),
\* and once a second tick inside a target minute has run to its sleep,
\* exactly one broadcast was sent for that minute.
C1_AtMostOncePerTarget ==
    /\ \A k \in DOMAIN broadcasts : broadcasts[k] <= 1
    /\ \A i \in 1..Len(target_times) :
          (sched_pc = "sleeping" /\ dup >= 2 /\ AtTarget(now, i))
              => Sent(KeyNow(i)) = 1

\* Two ticks fell inside 09:00 of date 0 and one broadcast was sent.
C1_Witness ==
    /\ sched_pc = "sleeping" /\ dup = 2
    /\ DateOf(now) = 0 /\ HourOf(now) = 9 /\ MinuteOf(now) = 0
    /\ Sent(<<0, 9, 0>>) = 1

\* C2: while no two consecutive ticks were more than 60 seconds apart and no
\* send failed, every target minute that began after the start of the run (or
\* in which the run started) and that the clock has passed got exactly one
\* broadcast; so a target is skipped only after a gap longer than 60 seconds.
C2_NormalClockCatchesEveryTarget ==
    (~late /\ sched_pc # "crashed") =>
        \A k \in TargetKeys :
            ( /\ started < KeyEnd(k)
              /\ \/ now >= KeyEnd(k)
                 \/ now >= KeyStart(k) /\ sched_pc = "sleeping" )
            => Sent(k) = 1

\* A whole day without a late tick: 09:00, 12:00 and 19:00 of date 0 were
\* each broadcast once, and the clock is past 19:00.
C2_Witness ==
    /\ ~late /\ sched_pc = "sleeping"
    /\ now >= At(0, 19, 1, 0)
    /\ Sent(<<0, 9, 0>>) = 1 /\ Sent(<<0, 12, 0>>) = 1 /\ Sent(<<0, 19, 0>>) = 1

\* C3: a tick at a target time on a new date sends a broadcast although the
\* same target time was broadcast on the previous date, whether or not a tick
\* fell inside the 00:00 minute in between.
C3_RebroadcastOnNewDate ==
    \A i \in 1..Len(target_times) :
        ( /\ sched_pc = "sleeping" /\ AtTarget(now, i)
          /\ DateOf(now) >= 1
          /\ Sent(<<DateOf(now) - 1, target_times[i][1], target_times[i][2]>>) >= 1 )
        => Sent(KeyNow(i)) = 1

\* 09:00 was broadcast on dates 0 and 1, and the dedup set still holds the
\* key of date 0: no tick fell inside 00:00.
C3_Witness ==
    /\ sched_pc = "sleeping" /\ AtTarget(now, 1) /\ DateOf(now) = 1
    /\ Sent(<<0, 9, 0>>) = 1 /\ Sent(<<1, 9, 0>>) = 1
    /\ <<0, 9, 0>> \in sent_today

\* C18: after every tick sampled inside the 00:00 minute the dedup set is
\* empty; and while no two consecutive ticks were more than 60 seconds apart,
\* after every tick the set holds only keys of the current date, so at most
\* one key per target time.
C18_ClearedAtMidnight ==
    sched_pc = "sleeping" =>
        /\ (HourOf(now) = 0 /\ MinuteOf(now) = 0) => sent_today = {}
        /\ ~late =>
              /\ \A k \in sent_today : k[1] = DateOf(now)
              /\ \A k1, k2 \in sent_today :
                    (k1[2] = k2[2] /\ k1[3] = k2[3]) => k1 = k2

\* A tick inside 00:00 of date 1, after the three broadcasts of date 0 put
\* their keys into the set, left the set empty.
C18_Witness ==
    /\ sched_pc = "sleeping" /\ ~late
    /\ DateOf(now) = 1 /\ HourOf(now) = 0 /\ MinuteOf(now) = 0
    /\ Sent(<<0, 9, 0>>) = 1 /\ Sent(<<0, 12, 0>>) = 1 /\ Sent(<<0, 19, 0>>) = 1
    /\ sent_today = {}

\* Broadcasts that earlier runs of the process delivered for the minute k.
Earlier(k) == IF k \in DOMAIN earlier THEN earlier[k] ELSE 0

\* C17: the dedup set is empty at every process start and at most one
\* broadcast per (date, hour, minute) is sent per run, not across runs: a run
\* that started inside a target minute and completed a tick in it has sent one
\* broadcast for that minute on top of those of earlier runs.
C17_DedupPerRunOnly ==
    /\ sched_pc = "start" => sent_today = {}
    /\ \A k \in DOMAIN broadcasts : broadcasts[k] - Earlier(k) <= 1
    /\ \A i \in 1..Len(target_times) :
          (sched_pc = "sleeping" /\ AtTarget(now, i) /\ started >= KeyStart(KeyNow(i)))
              => Sent(KeyNow(i)) = Earlier(KeyNow(i)) + 1

\* 09:00 of date 0 was broadcast, the process was restarted inside that
\* minute, and the new run broadcast 09:00 a second time.
C17_Witness ==
    /\ run = 1 /\ sched_pc = "sleeping"
    /\ DateOf(now) = 0 /\ AtTarget(now, 1) /\ started >= At(0, 9, 0, 0)
    /\ Earlier(<<0, 9, 0>>) = 1 /\ Sent(<<0, 9, 0>>) = 2

\* C10: the scheduler loop has no terminal state: whatever the outcome of
\* the fetch and of the send of a broadcast, the loop goes on to another tick.
C10_SchedulerNeverStops == sched_pc # "crashed"

(***************************************************************************)
(* Fetcher claims (under SpecFetch)                                        *)
(***************************************************************************)

CoinOf(n) == TICKERS[CHOOSE i \in 1..Len(TICKERS) : TICKERS[i].name = n].coin_id

\* The answer d holds a number for symbol n.
ParsedIn(d, n) == d.kind = "json" /\ d.body[CoinOf(n)].kind = "num"

Parsed(n) == ParsedIn(data, n)

\* c cents is k/16 USD rounded to the nearest cent, a tie to the even cent.
IsRounded(c, k) ==
    LET e == 4 * c - 25 * k
    IN  e \in -2..2 /\ (e \in {-2, 2} => c % 2 = 0)

\* The quote of symbol n in the latest answer, rounded.
Quoted(n) == CHOOSE c \in 0..(7 * MaxRaw) : IsRounded(c, data.body[CoinOf(n)].k)

HadPrice(n) == n \in DOMAIN old_prices

\* How the quote of n in the latest answer compares with the price stored
\* for n before the fetch: "none" when either is missing.
Movement(n) ==
    IF ~(Parsed(n) /\ HadPrice(n)) THEN "none"
    ELSE LET q == Quoted(n)
         IN  IF q > old_prices[n] THEN "greater"
             ELSE IF q < old_prices[n] THEN "less" ELSE "equal"

\* C4 as claimed: up iff new > old, down iff new < old, flat iff equal,
\* unknown iff nothing was parsed or the symbol had no stored price yet.
C4_IndicatorAsClaimed ==
    data # NoData =>
        \A n \in Names :
            LET m == Movement(n)
            IN  /\ n \in DOMAIN prices
                /\ prices[n][2] = ARROW_UP <=> m = "greater"
                /\ prices[n][2] = ARROW_DOWN <=> m = "less"
                /\ prices[n][2] = ARROW_FLAT <=> m = "equal"
                /\ prices[n][2] = ARROW_UNKNOWN <=> (~Parsed(n) \/ ~HadPrice(n))

\* C4 amended: up iff a price was parsed and it is greater than the stored
\* one, down iff it is less, flat iff a price was parsed and it is neither
\* greater nor less than a stored one (it is equal, or there was no stored
\* price: the first observation), and unknown iff no price was parsed.
C4_Indicator ==
    data # NoData =>
        \A n \in Names :
            LET m == Movement(n)
            IN  /\ n \in DOMAIN prices
                /\ prices[n][2] = ARROW_UP <=> m = "greater"
                /\ prices[n][2] = ARROW_DOWN <=> m = "less"
                /\ prices[n][2] = ARROW_FLAT
                      <=> (Parsed(n) /\ m # "greater" /\ m # "less")
                /\ prices[n][2] = ARROW_UNKNOWN <=> ~Parsed(n)

\* One fetch with a first observation (flat), a rise, a fall and a failure.
C4_Witness ==
    /\ Parsed("BTC") /\ ~HadPrice("BTC") /\ prices["BTC"][2] = ARROW_FLAT
    /\ Parsed("ETH") /\ HadPrice("ETH") /\ prices["ETH"][2] = ARROW_UP
    /\ Parsed("BNB") /\ HadPrice("BNB") /\ prices["BNB"][2] = ARROW_DOWN
    /\ data.kind = "json" /\ ~Parsed("SOL") /\ prices["SOL"][2] = ARROW_UNKNOWN

\* C5: for every symbol with a parseable price in the answer, the stored
\* price after the fetch is the quote rounded to 2 decimals, the snapshot
\* reports that value, and so does the price file when the write succeeded.
C5_StoredIsRoundedQuote ==
    data # NoData =>
        \A n \in Names :
            Parsed(n) =>
                /\ n \in DOMAIN last_prices
                /\ IsRounded(last_prices[n], data.body[CoinOf(n)].k)
                /\ n \in DOMAIN prices
                /\ prices[n][1] = Some(last_prices[n])
                /\ saved = "written" =>
                      /\ prices_file.ok
                      /\ n \in DOMAIN prices_file.map
                      /\ prices_file.map[n] = last_prices[n]

\* 2/16 USD (a tie, 12.5 cents) was stored as 12 and 3/16 USD (18.75 cents)
\* as 19, and the file was written.
C5_Witness ==
    /\ data.kind = "json" /\ saved = "written"
    /\ data.body["bitcoin"] = Num(2) /\ last_prices["BTC"] = 12
    /\ data.body["ethereum"] = Num(3) /\ last_prices["ETH"] = 19
    /\ prices_file.ok /\ prices_file.map["ETH"] = 19

\* The answer with every failing coin given the number k/16.
Repaired(body, k) ==
    [c \in CoinIds |-> IF body[c].kind = "num" THEN body[c] ELSE Num(k)]

\* C6: when the answer omits or garbles some symbols, each of them is
\* reported with an absent price and "unknown", and every other symbol gets
\* the price, indicator and stored price it gets when no symbol fails.
C6_PartialFailure ==
    data.kind = "json" =>
        /\ DOMAIN prices = Names
        /\ \A n \in Names : ~Parsed(n) => prices[n] = <<None, ARROW_UNKNOWN>>
        /\ \A k \in RawNums :
              LET g == Fetched(Json(Repaired(data.body, k)), old_prices)
              IN  \A n \in Names :
                      Parsed(n) =>
                          /\ prices[n] = g.prices[n]
                          /\ n \in DOMAIN last_prices
                          /\ last_prices[n] = g.last_prices[n]

\* BTC is omitted, ETH is garbled, and XAU, after them, is reported as risen.
C6_Witness ==
    /\ data.kind = "json"
    /\ data.body["bitcoin"] = Missing /\ prices["BTC"] = <<None, ARROW_UNKNOWN>>
    /\ data.body["ethereum"] = Bad /\ prices["ETH"] = <<None, ARROW_UNKNOWN>>
    /\ Parsed("XAU") /\ HadPrice("XAU")
    /\ prices["XAU"] = <<Some(19), ARROW_UP>> /\ last_prices["XAU"] = 19

\* C7: when the request fails as a whole, every symbol of TICKERS is reported
\* with an absent price and "unknown", and no stored price changes.
C7_TotalFailure ==
    data \in Failures =>
        /\ DOMAIN prices = Names
        /\ \A n \in Names : prices[n] = <<None, ARROW_UNKNOWN>>
        /\ last_prices = old_prices

\* A payload that is not JSON, with every symbol stored before the fetch.
C7_Witness ==
    /\ data = NotJson
    /\ DOMAIN old_prices = Names /\ last_prices = old_prices
    /\ prices["XAU"] = <<None, ARROW_UNKNOWN>>

\* C16: a parsed price is classified by comparing it with the price stored
\* for the symbol before the fetch, and when there is no stored price (the
\* first observation of the symbol in this deployment) the indicator is the
\* neutral "flat" one, whatever the price.
C16_FirstObservationFlat ==
    data # NoData =>
        \A n \in Names :
            Parsed(n) =>
                /\ n \in DOMAIN prices
                /\ ~HadPrice(n) => prices[n][2] = ARROW_FLAT
                /\ HadPrice(n) =>
                      prices[n][2] =
                          IF Quoted(n) > old_prices[n] THEN ARROW_UP
                          ELSE IF Quoted(n) < old_prices[n] THEN ARROW_DOWN
                          ELSE ARROW_FLAT

\* A start with an empty price map: the lowest and the highest quote are both
\* first observations and both flat, next to a symbol that fails.
C16_Witness ==
    /\ old_prices = EmptyDict /\ data.kind = "json"
    /\ data.body["bitcoin"] = Num(1) /\ prices["BTC"] = <<Some(6), ARROW_FLAT>>
    /\ data.body["ethereum"] = Num(MaxRaw) /\ prices["ETH"][2] = ARROW_FLAT
    /\ ~Parsed("SOL")

\* C20: every snapshot has exactly one entry per symbol of TICKERS and none
\* for anything else, each entry is a pair (price, indicator), and the price
\* is absent exactly when the indicator is "unknown".
C20_SnapshotShape ==
    data # NoData =>
        /\ DOMAIN prices = Names
        /\ \A n \in Names :
              /\ Len(prices[n]) = 2
              /\ prices[n][1] = None \/ \E c \in Cents : prices[n][1] = Some(c)
              /\ prices[n][2] \in {ARROW_UP, ARROW_DOWN, ARROW_FLAT, ARROW_UNKNOWN}
              /\ prices[n][1] = None <=> prices[n][2] = ARROW_UNKNOWN

\* A snapshot with both kinds of entry: SOL had a stored price and failed
\* (absent, unknown); BTC was parsed (present, not unknown).
C20_Witness ==
    /\ data.kind = "json"
    /\ HadPrice("SOL") /\ ~Parsed("SOL") /\ prices["SOL"] = <<None, ARROW_UNKNOWN>>
    /\ Parsed("BTC") /\ prices["BTC"][1] # None /\ prices["BTC"][2] # ARROW_UNKNOWN

(***************************************************************************)
(* Claims about whole operations (under SpecSave and Spec)                 *)
(***************************************************************************)

\* C8: every fetch writes the whole in-memory price map to the price file,
\* and a failed write is swallowed: the fetch returns a full snapshot, the
\* in-memory map holds the values of this fetch, and the caller goes on to
\* the send of its message (the price reply or the broadcast) whatever the
\* outcome of the write; the one caller that does not send is the price
\* command of an update without message, which fails at its reply statement
\* whether or not the write succeeded.
C8_SaveAlwaysAndSwallowed ==
    [][ fetch_bit' # fetch_bit =>
          /\ saved' \in WriteOutcomes
          /\ saved' = "written" => prices_file' = FileOk(last_prices')
          /\ DOMAIN prices' = Names
          /\ \A n \in Names :
                ParsedIn(data', n) =>
                    n \in DOMAIN last_prices' /\ prices'[n][1] = Some(last_prices'[n])
          /\ \/ /\ handler.pc # "replying" /\ HasMessage(inbound')
                /\ handler'.op \in {"price", "auto_reply"}
                /\ handler' = Replying(handler'.op, "market message")
             \/ /\ handler.pc # "replying" /\ ~HasMessage(inbound')
                /\ handler' = Ended("price", "none", "AttributeError", FALSE)
             \/ sched_pc' = "sending" /\ sched_pc # "sending"
      ]_vars

\* A price request whose write failed midway: the file is garbage, the map
\* holds the new price and the reply is being sent.
C8_Witness ==
    /\ saved = "dump_failed" /\ prices_file = FileCorrupt
    /\ handler.pc = "replying" /\ handler.op = "price"
    /\ Parsed("BTC") /\ last_prices["BTC"] = 6 /\ prices["BTC"][1] = Some(6)

\* C9: no runtime failure leaves the operation it occurs in: the handler of
\* a price or reload command (of an update that carries a message) that
\* ended either returned after sending its reply, or ended in the failure of
\* that very send.
C9_NoFailureRaises ==
    (handler.pc = "ended" /\ handler.op \in {"price", "reload"} /\ HasMessage(inbound))
        => (handler.raised_by \in {"none", "send"} /\ handler.sent)

(***************************************************************************)
(* Handler claims (under SpecChat)                                         *)
(***************************************************************************)

\* The update is a message whose lower-cased text contains "price".
PriceAsked(update) ==
    update.kind = "text" /\ In(Chars("price"), lower(Chars(update.text)))

\* A step in which auto_reply handles the update inbound'.
AutoReplyStep ==
    /\ handler.pc # "replying"
    /\ handler'.op = "auto_reply"
    /\ <<handler, inbound, fetch_bit>>' # <<handler, inbound, fetch_bit>>

\* C12: the text handler sends at most one reply per message: when the
\* lower-cased text contains "price" it makes one fetch and sends the price
\* reply and no keyword reply; otherwise it makes no fetch and sends the reply
\* of one entry of the table whose key is in the message, or nothing; an
\* update without message text gets no reply.
C12_OneReplyPerText ==
    [][ AutoReplyStep =>
          /\ inbound'.kind \in {"text", "no_message"}
          /\ IF PriceAsked(inbound')
             THEN /\ fetch_bit' # fetch_bit
                  /\ handler' = Replying("auto_reply", "market message")
             ELSE /\ UNCHANGED fetch_vars
                  /\ \/ handler' = Ended("auto_reply", "none", "none", FALSE)
                     \/ /\ handler'.pc = "replying"
                        /\ inbound'.kind = "text"
                        /\ \E i \in 1..Len(responses) :
                              /\ In(Chars(responses[i].key), lower(Chars(inbound'.text)))
                              /\ handler' = Replying("auto_reply", responses[i].reply)
      ]_vars

\* "hello, price?" with the default table: the keyword "hello" matches too,
\* and the reply on its way is the price reply of a fetch.
C12_Witness ==
    /\ inbound = TextMessage("hello, price?") /\ responses = default_responses
    /\ handler = Replying("auto_reply", "market message")
    /\ data # NoData

\* C13: the keyword reply is the reply of the first entry, in stored order,
\* whose key does not start with an underscore and is a substring of the
\* lower-cased message; when there is none, nothing is sent.  So with the
\* table {deposit, _welcome} the message "_welcome" gets no reply.
C13_FirstVisibleMatch ==
    (handler.op = "auto_reply" /\ inbound.kind = "text" /\ ~PriceAsked(inbound)) =>
        LET msg == lower(Chars(inbound.text))
            E == {i \in 1..Len(responses) :
                    /\ ~startswith(Chars(responses[i].key), Chars("_"))
                    /\ In(Chars(responses[i].key), msg)}
        IN  /\ IF E = {} THEN ~handler.sent /\ handler.text = "none"
               ELSE /\ handler.sent
                    /\ \E i \in E : (\A j \in E : i <= j) /\ handler.text = responses[i].reply
            /\ (responses = DepositResponses /\ inbound.text = "_welcome") => ~handler.sent

\* With the table {deposit, _welcome}, "how do I deposit funds" was answered
\* with the deposit reply.
C13_Witness ==
    /\ responses = DepositResponses /\ inbound = TextMessage("how do I deposit funds")
    /\ handler = Ended("auto_reply", "deposit text", "none", TRUE)

\* The table a response file holds; none when it is missing or not JSON.
TableIn(file) == IF file.state = "ok" THEN file.table ELSE << >>

\* C14: the reply to a text message is the one the table gives that
\* responses.json held at the most recent reload command, or at start-up
\* when there was none.
C14_RepliesFollowLatestReload ==
    (handler.op = "auto_reply" /\ ~PriceAsked(inbound)) =>
        LET plan == auto_reply_plan(inbound, TableIn(loaded_from))
        IN  IF plan.act = "reply"
            THEN handler.sent /\ handler.text = plan.reply
            ELSE ~handler.sent

\* C15: the welcome handler sends a message exactly when the member's status
\* went from "left" or "kicked" to "member", and it sends it to the chat of
\* the status change.
C15_WelcomeOnJoinOnly ==
    handler.op = "welcome" =>
        /\ inbound.kind = "chat_member"
        /\ handler.sent <=>
              (inbound.old_status \in {"left", "kicked"} /\ inbound.new_status = "member")
        /\ handler.pc = "replying" => handler.chat = inbound.chat

\* A member who was kicked joins the other chat: the welcome goes there.
C15_Witness ==
    /\ inbound = ChatMemberUpdate("kicked", "member", "other chat")
    /\ handler.op = "welcome" /\ handler.pc = "replying"
    /\ handler.chat = "other chat"

(***************************************************************************)
(* Claims about the flows that share the price map (under SpecFlows)       *)
(***************************************************************************)

\* The indicator a parsed price c gets against the map lp.
Against(lp, n, c) ==
    IF n \notin DOMAIN lp THEN ARROW_FLAT
    ELSE IF c > lp[n] THEN ARROW_UP
    ELSE IF c < lp[n] THEN ARROW_DOWN
    ELSE ARROW_FLAT

\* C11: however the scheduler's broadcast and the handlers' price requests
\* interleave at their awaits, each fetch reads, compares, updates and
\* persists the price map in one step: its indicators are computed against
\* the map as the previous fetch left it, its updates are made on that map
\* (none of an earlier fetch is lost), and the file it writes holds the map it
\* leaves; between two fetches nothing touches the map or the file; and no
\* handler step changes the dedup set.
C11_FetchIsAtomic ==
    [][ /\ fetch_bit' # fetch_bit =>
              /\ \A n \in Names :
                    IF ParsedIn(data', n)
                    THEN /\ n \in DOMAIN last_prices'
                         /\ prices'[n] = <<Some(last_prices'[n]),
                                           Against(last_prices, n, last_prices'[n])>>
                    ELSE /\ n \in DOMAIN last_prices' <=> n \in DOMAIN last_prices
                         /\ n \in DOMAIN last_prices => last_prices'[n] = last_prices[n]
              /\ saved' = "written" => prices_file' = FileOk(last_prices')
        /\ fetch_bit' = fetch_bit => UNCHANGED <<last_prices, prices_file>>
        /\ <<handler, inbound>>' # <<handler, inbound>> => sent_today' = sent_today
      ]_vars

\* The scheduler is suspended in the send of its broadcast and a handler in
\* the send of its price reply; the later of their fetches found the price the
\* earlier one left (6 cents) and reported a rise to 12, after a failed write.
C11_Witness ==
    /\ sched_pc = "sending"
    /\ handler.pc = "replying" /\ handler.text = "market message"
    /\ prices_file = FileCorrupt
    /\ HadPrice("BTC") /\ old_prices["BTC"] = 6
    /\ prices["BTC"] = <<Some(12), ARROW_UP>> /\ last_prices["BTC"] = 12

\* C19: the stored price of a symbol changes only in a fetch that parses a
\* price for it: every other step (a failing fetch, a keyword reply, a reload,
\* a welcome, a tick without broadcast) leaves it as it is, and no step
\* removes a stored price.
C19_StoredPriceFrame ==
    [][ \A n \in Names :
          /\ n \in DOMAIN last_prices => n \in DOMAIN last_prices'
          /\ ( /\ n \in DOMAIN last_prices'
               /\ n \in DOMAIN last_prices => last_prices'[n] # last_prices[n] )
             => (fetch_bit' # fetch_bit /\ ParsedIn(data', n))
      ]_vars

\* ETH was stored at 6 cents; the latest fetch parsed no price for it and
\* moved BTC to 12; a welcome was sent since; ETH is still stored at 6.
C19_Witness ==
    /\ data.kind = "json" /\ ~Parsed("ETH")
    /\ HadPrice("ETH") /\ old_prices["ETH"] = 6 /\ last_prices["ETH"] = 6
    /\ old_prices["BTC"] = 6 /\ last_prices["BTC"] = 12
    /\ handler.op = "welcome" /\ handler.pc = "ended" /\ handler.sent

====
